---------------------------- MODULE Spec2Model ----------------------------
(***************************************************************************)
(* ClipMind: clipboard / screenshot capture with a dual FAISS vector       *)
(* store, a deduplication pipeline and semantic search.                    *)
(*                                                                         *)
(* Twelve specifications share this module:                                *)
(*   SpecJunk    the pure function is_junk (app/ingest/main.py)            *)
(*   SpecStore   one DualVectorStore object: adds and searches             *)
(*               (app/index/vector_store.py)                               *)
(*   SpecPersist a DualVectorStore and its four backing files: open, add,  *)
(*               save, and a process that dies inside save                 *)
(*   Spec        the clipboard pipeline: watcher, record store, index      *)
(*               directory, item deletion, crashes and restarts            *)
(*   SpecScreens the screenshot pipeline over the same record store and    *)
(*               index directory                                           *)
(*   SpecSearch  semantic_search called over what the clipboard and the    *)
(*               screenshot pipeline left (app/search/semantic_search.py)  *)
(*   SpecRebuild rebuild_index run over the same (app/index/rebuild_from_  *)
(*               db.py)                                                    *)
(*   SpecWatchers both watchers at once, as app/run_watchers.py starts     *)
(*               them                                                      *)
(*   SpecDepth   the search depth semantic_search asks of a space          *)
(*   SpecCrowd   semantic_search over many screenshots with one OCR text   *)
(*   SpecShared  both watchers while items are deleted                     *)
(*   SpecOcr     the screenshot watcher and rebuild_index over             *)
(*               screenshots without text                                  *)
(*                                                                         *)
(* Texts and file contents are sequences of characters.  Squared L2        *)
(* distances are integers counted in tenths (3 stands for 0.3).            *)
(***************************************************************************)
EXTENDS Integers, Sequences, FiniteSets, TLC

VARIABLES
    jText, jResult,                    \* SpecJunk: input text, result of is_junk
    store, disk, res, hist,            \* SpecStore: object, files, last result, successful adds
    db, cw, sw, files, cache, decision, \* Spec: record store, the two watchers, screenshot folder,
                                        \*       processed-files cache file, last clipboard decision
    clock, sr,                          \* the system clock (seconds), the last semantic_search call
    depth                               \* SpecDepth: the last search depth computed

junkVars  == <<jText, jResult>>
storeVars == <<store, disk, res, hist>>
sysVars   == <<db, cw, sw, files, cache, decision, clock, sr, depth>>
vars      == <<jText, jResult, store, disk, res, hist, db, cw, sw, files, cache, decision,
               clock, sr, depth>>

-----------------------------------------------------------------------------
(* Characters.  Python's str methods are modelled on the characters the    *)
(* inputs use: str.isspace, str.isalnum, str.lower.                        *)

LowerLetters == {"a","b","c","d","e","h","i","k","l","m","o","p","r","s","t","u","w","y"}
UpperLetters == {"C","L","R","T"}
Digits       == {"1"}
Spaces       == {" "}

isspace(c) == c \in Spaces

isalnum(c) == c \in LowerLetters \cup UpperLetters \cup Digits

lower_char(c) ==
    CASE c = "C" -> "c"
      [] c = "L" -> "l"
      [] c = "R" -> "r"
      [] c = "T" -> "t"
      [] OTHER   -> c

lower(text) == [i \in 1..Len(text) |-> lower_char(text[i])]

\* str.strip(): drop leading and trailing whitespace
strip(text) ==
    LET keep == {i \in 1..Len(text) : ~isspace(text[i])}
    IN  IF keep = {} THEN <<>>
        ELSE LET first == CHOOSE i \in keep : \A j \in keep : i <= j
                 last  == CHOOSE i \in keep : \A j \in keep : j <= i
             IN  SubSeq(text, first, last)

\* pattern in text (substring test)
contains(text, pattern) ==
    \E s \in 0..(Len(text) - Len(pattern)) :
        \A i \in 1..Len(pattern) : text[s + i] = pattern[i]

min_length == 5

junk_patterns ==
    { <<"c","o","p","i","e","d"," ","t","o"," ","c","l","i","p","b","o","a","r","d">>,
      <<"c","o","p","y"," ","s","u","c","c","e","s","s","f","u","l">>,
      <<"c","t","r","l","+","c">>,
      <<"c","m","d","+","c">> }

\* a plausible slip: the patterns are matched against the text as typed
is_junk_no_lower(text) ==
    IF Len(text) < min_length THEN TRUE
    ELSE IF strip(text) = <<>> THEN TRUE
    ELSE IF Cardinality({strip(text)[i] : i \in 1..Len(strip(text))}) = 1 THEN TRUE
    ELSE IF ~(\E i \in 1..Len(text) : isalnum(text[i])) THEN TRUE
    ELSE IF \E p \in junk_patterns : contains(text, p) THEN TRUE
    ELSE FALSE

is_junk(text) ==
    IF Len(text) < min_length THEN TRUE                                   \* Rule 1
    ELSE IF strip(text) = <<>> THEN TRUE                                  \* Rule 2
    ELSE IF Cardinality({strip(text)[i] : i \in 1..Len(strip(text))}) = 1
         THEN TRUE                                                        \* Rule 3
    ELSE IF ~(\E i \in 1..Len(text) : isalnum(text[i])) THEN TRUE         \* Rule 4
    ELSE IF \E p \in junk_patterns : contains(lower(text), p) THEN TRUE   \* Rule 5
    ELSE FALSE

-----------------------------------------------------------------------------
(* FAISS IndexFlatL2 and DualVectorStore (app/index/vector_store.py).      *)
(* A vector is a sequence of integers; a one-dimensional array of any      *)
(* length is lifted by reshape(1, -1) to one row of that length.  The      *)
(* source's dimensions are 384 and 512; the model keeps them distinct and  *)
(* small.                                                                  *)

TextDim  == 3
ImageDim == 4

\* distance FAISS reports for a padded (missing) result
FLT_MAX == 1000000

RECURSIVE SumSq(_, _, _)
SumSq(a, b, i) ==
    IF i = 0 THEN 0 ELSE (a[i] - b[i]) * (a[i] - b[i]) + SumSq(a, b, i - 1)

\* squared Euclidean distance of two vectors of equal length
L2sqr(a, b) == SumSq(a, b, Len(a))

IndexFlatL2(d) == [d |-> d, xb |-> <<>>]

ntotal(index) == Len(index.xb)

\* insert entry e into the sorted list best, after the entries that are not farther
InsertSorted(best, e) ==
    LET before == {i \in 1..Len(best) : best[i].dist <= e.dist}
        n      == Cardinality(before)
    IN  SubSeq(best, 1, n) \o <<e>> \o SubSeq(best, n + 1, Len(best))

\* exhaustive scan keeping the k nearest: a vector replaces the worst kept one
\* only when it is strictly nearer
RECURSIVE Scan(_, _, _, _, _)
Scan(xb, q, k, p, best) ==
    IF p > Len(xb) THEN best
    ELSE LET e == [pos |-> p - 1, dist |-> L2sqr(xb[p], q)]
         IN  IF Len(best) < k
             THEN Scan(xb, q, k, p + 1, InsertSorted(best, e))
             ELSE IF e.dist < best[k].dist
             THEN Scan(xb, q, k, p + 1, SubSeq(InsertSorted(best, e), 1, k))
             ELSE Scan(xb, q, k, p + 1, best)

\* index.search(q, k): k entries, nearest first, padded with (-1, FLT_MAX);
\* the query must have the index's dimension
index_search(index, q, k) ==
    IF Len(q) # index.d
    THEN [ok |-> FALSE, distances |-> <<>>, positions |-> <<>>]
    ELSE LET best == Scan(index.xb, q, k, 1, <<>>)
         IN  [ok        |-> TRUE,
              distances |-> [i \in 1..k |-> IF i <= Len(best) THEN best[i].dist ELSE FLT_MAX],
              positions |-> [i \in 1..k |-> IF i <= Len(best) THEN best[i].pos ELSE -1]]

\* DualVectorStore.__init__ before loading
NewStore(text_dim, image_dim) ==
    [open         |-> TRUE,
     text_dim     |-> text_dim,
     image_dim    |-> image_dim,
     text_index   |-> IndexFlatL2(text_dim),
     text_id_map  |-> <<>>,
     image_index  |-> IndexFlatL2(image_dim),
     image_id_map |-> <<>>]

\* no object (the process is not running, or construction failed)
NoStore == [NewStore(0, 0) EXCEPT !.open = FALSE]

\* a plausible slip: the id is recorded although the index refused the vector
add_text_vector_unchecked(s, item_id, vector) ==
    IF Len(vector) # s.text_index.d
    THEN [ok |-> FALSE, store |-> [s EXCEPT !.text_id_map = Append(@, item_id)]]
    ELSE [ok |-> TRUE,
          store |-> [s EXCEPT !.text_index.xb = Append(@, vector),
                              !.text_id_map   = Append(@, item_id)]]

\* a plausible slip: the id is put at the front of the position map
add_text_vector_front(s, item_id, vector) ==
    IF Len(vector) # s.text_index.d
    THEN [ok |-> FALSE, store |-> s]
    ELSE [ok |-> TRUE,
          store |-> [s EXCEPT !.text_index.xb = Append(@, vector),
                              !.text_id_map   = <<item_id>> \o @]]

\* index.add raises when the row length differs from index.d, before
\* anything is stored; the id is appended after the vector
add_text_vector(s, item_id, vector) ==
    IF Len(vector) # s.text_index.d
    THEN [ok |-> FALSE, store |-> s]
    ELSE [ok |-> TRUE,
          store |-> [s EXCEPT !.text_index.xb = Append(@, vector),
                              !.text_id_map   = Append(@, item_id)]]

add_image_vector(s, item_id, vector) ==
    IF Len(vector) # s.image_index.d
    THEN [ok |-> FALSE, store |-> s]
    ELSE [ok |-> TRUE,
          store |-> [s EXCEPT !.image_index.xb = Append(@, vector),
                              !.image_id_map   = Append(@, item_id)]]

\* a plausible slip: the position is used as a one-based index
search_text_off_by_one(s, query_vector, top_k) ==
    LET r == index_search(s.text_index, query_vector, top_k)
    IN  IF ~r.ok THEN [ok |-> FALSE, distances |-> <<>>, positions |-> <<>>, item_ids |-> <<>>]
        ELSE [ok        |-> TRUE,
              distances |-> r.distances,
              positions |-> r.positions,
              item_ids  |-> [i \in 1..top_k |->
                               IF 1 <= r.positions[i] /\ r.positions[i] <= Len(s.text_id_map)
                               THEN s.text_id_map[r.positions[i]]
                               ELSE -1]]

\* search_text: positions are zero-based, the id map is read at position + 1
search_text(s, query_vector, top_k) ==
    LET r == index_search(s.text_index, query_vector, top_k)
    IN  IF ~r.ok THEN [ok |-> FALSE, distances |-> <<>>, positions |-> <<>>, item_ids |-> <<>>]
        ELSE [ok        |-> TRUE,
              distances |-> r.distances,
              positions |-> r.positions,
              item_ids  |-> [i \in 1..top_k |->
                               IF 0 <= r.positions[i] /\ r.positions[i] < Len(s.text_id_map)
                               THEN s.text_id_map[r.positions[i] + 1]
                               ELSE -1]]

get_stats(s) ==
    [text_vectors  |-> ntotal(s.text_index),
     image_vectors |-> ntotal(s.image_index),
     total_items   |-> Cardinality({s.text_id_map[i] : i \in 1..Len(s.text_id_map)}
                                   \cup {s.image_id_map[i] : i \in 1..Len(s.image_id_map)})]

(* Backing files.  A file is absent, complete ("ok") or partly written     *)
(* ("torn": the process died inside faiss.write_index or np.save, which    *)
(* write in place).                                                        *)
AbsentIndex == [state |-> "absent", d |-> 0, xb |-> <<>>]
AbsentIdmap == [state |-> "absent", ids |-> <<>>]
TornIndex   == [state |-> "torn", d |-> 0, xb |-> <<>>]
TornIdmap   == [state |-> "torn", ids |-> <<>>]

EmptyDisk ==
    [text_index  |-> AbsentIndex, text_idmap  |-> AbsentIdmap,
     image_index |-> AbsentIndex, image_idmap |-> AbsentIdmap]

IndexFile(index) == [state |-> "ok", d |-> index.d, xb |-> index.xb]
IdmapFile(ids)   == [state |-> "ok", ids |-> ids]

exists(file) == file.state # "absent"

\* save(): the four writes in program order; SaveUpTo(s, dk, n, torn) is the
\* disk after the first n writes completed and, if torn, the next one began
SaveUpTo(s, dk, n, torn) ==
    [text_index  |-> IF n >= 1 THEN IndexFile(s.text_index)
                     ELSE IF torn /\ n = 0 THEN TornIndex ELSE dk.text_index,
     text_idmap  |-> IF n >= 2 THEN IdmapFile(s.text_id_map)
                     ELSE IF torn /\ n = 1 THEN TornIdmap ELSE dk.text_idmap,
     image_index |-> IF n >= 3 THEN IndexFile(s.image_index)
                     ELSE IF torn /\ n = 2 THEN TornIndex ELSE dk.image_index,
     image_idmap |-> IF n >= 4 THEN IdmapFile(s.image_id_map)
                     ELSE IF torn /\ n = 3 THEN TornIdmap ELSE dk.image_idmap]

\* a plausible slip: only the text space is written
save_text_only(s, dk) == SaveUpTo(s, dk, 2, FALSE)

save(s, dk) == SaveUpTo(s, dk, 4, FALSE)

\* DualVectorStore(text_dim, image_dim): _load_or_create_indexes reads a
\* space's two files when both exist, else starts the space empty; reading a
\* partly written file raises; the stored dimension is not looked at
DualVectorStore(text_dim, image_dim, dk) ==
    LET fresh    == NewStore(text_dim, image_dim)
        loadText == exists(dk.text_index) /\ exists(dk.text_idmap)
        loadImg  == exists(dk.image_index) /\ exists(dk.image_idmap)
        failed   == \/ loadText /\ (dk.text_index.state = "torn" \/ dk.text_idmap.state = "torn")
                    \/ loadImg /\ (dk.image_index.state = "torn" \/ dk.image_idmap.state = "torn")
    IN  IF failed THEN [ok |-> FALSE, store |-> NoStore]
        ELSE [ok |-> TRUE,
              store |-> [fresh EXCEPT
                  !.text_index   = IF loadText THEN [d |-> dk.text_index.d, xb |-> dk.text_index.xb] ELSE @,
                  !.text_id_map  = IF loadText THEN dk.text_idmap.ids ELSE @,
                  !.image_index  = IF loadImg THEN [d |-> dk.image_index.d, xb |-> dk.image_index.xb] ELSE @,
                  !.image_id_map = IF loadImg THEN dk.image_idmap.ids ELSE @]]

-----------------------------------------------------------------------------
(* Ingestion (app/ingest/main.py, app/ingest/screenshot_watcher.py) and    *)
(* the record store (app/db/models.py).                                    *)

\* code points of the characters the inputs use
CodePoint(c) ==
    CASE c = " " -> 32  [] c = "+" -> 43
      [] c = "C" -> 67  [] c = "L" -> 76  [] c = "R" -> 82  [] c = "T" -> 84
      [] c = "a" -> 97  [] c = "b" -> 98  [] c = "c" -> 99  [] c = "d" -> 100
      [] c = "e" -> 101 [] c = "h" -> 104 [] c = "i" -> 105 [] c = "k" -> 107
      [] c = "l" -> 108 [] c = "m" -> 109 [] c = "o" -> 111 [] c = "p" -> 112
      [] c = "r" -> 114 [] c = "s" -> 115 [] c = "t" -> 116 [] c = "u" -> 117
      [] c = "w" -> 119 [] c = "y" -> 121 [] c = "1" -> 49

\* text.encode('utf-8') on these (ASCII) characters: one byte each
utf8(text) == [i \in 1..Len(text) |-> CodePoint(text[i])]

\* size of the digest space (2^64 in xxhash)
HashSpace == 69

\* xxh64 stand-in: a deterministic digest of the byte sequence
RECURSIVE xxh64(_)
xxh64(bytes) ==
    IF bytes = <<>> THEN 0
    ELSE (xxh64(SubSeq(bytes, 1, Len(bytes) - 1)) * 31 + bytes[Len(bytes)]) % HashSpace

compute_hash(text) == xxh64(utf8(text))

\* the file is digested chunk by chunk, which gives the digest of its bytes
compute_image_hash(file) == xxh64(file.bytes)

Count(text, c) == Cardinality({i \in 1..Len(text) : text[i] = c})

\* sentence-encoder stand-in: a deterministic vector of TextDim features of
\* the text (the number of l, o and e in it)
encode_text_to_vector(text) == <<Count(text, "l"), Count(text, "o"), Count(text, "e")>>

\* pyperclip.paste() stripped; the empty text stands for None
NoText == <<>>
read_clipboard_text(raw) == strip(raw)

\* rows of table Item
NoId == 0
ItemIds(rows) == {r.id : r \in rows}

\* INTEGER PRIMARY KEY of SQLite: one more than the largest id in the table
NewId(rows) ==
    IF rows = {} THEN 1
    ELSE (CHOOSE i \in ItemIds(rows) : \A j \in ItemIds(rows) : j <= i) + 1

Item(id, text, content_hash, source, blob_uri, created_ts) ==
    [id |-> id, text |-> text, content_hash |-> content_hash,
     source |-> source, blob_uri |-> blob_uri, created_ts |-> created_ts]

\* select(Item).where(content_hash == h).limit(1).first(): the id or None
check_exact_duplicate(rows, text_hash) ==
    LET hit == {r.id : r \in {x \in rows : x.content_hash = text_hash}}
    IN  IF hit = {} THEN NoId
        ELSE CHOOSE i \in hit : \A j \in hit : i <= j

\* distances are counted in tenths: 0.3 is 3, and 1 - d/10 is, in
\* hundredths, 100 - 10 * d / 10
near_threshold == 3
rescale_divisor == 10
similarity(distance) == 100 - (10 * distance) \div rescale_divisor

NotNear == [found |-> FALSE, id |-> NoId, sim |-> 0]

check_near_duplicates(text, s) ==
    IF ntotal(s.text_index) = 0 THEN NotNear
    ELSE LET r == search_text(s, encode_text_to_vector(text), 1)
         IN  IF ~r.ok \/ r.item_ids[1] = -1 THEN NotNear
             ELSE IF r.distances[1] < near_threshold
             THEN [found |-> TRUE, id |-> r.item_ids[1], sim |-> similarity(r.distances[1])]
             ELSE NotNear

\* kind, id and similarity of the decision, the text decided on, and the
\* functions the handler called to reach it, in order
NoDecision == [kind |-> "none", id |-> NoId, sim |-> 0, text |-> NoText, calls |-> <<>>]

\* the calls of the junk stage, of the hash stage and of the near stage
\* (check_near_duplicates returns before encoding when the space is empty)
JunkCalls == <<"is_junk">>
HashCalls == <<"compute_hash", "check_exact_duplicate">>
NearCalls(s) ==
    <<"check_near_duplicates">>
    \o (IF ntotal(s.text_index) = 0 THEN <<>> ELSE <<"encode_text_to_vector", "search_text">>)

\* a plausible slip: the three stages are all run before the decision is taken
Decide_eager(current, rows, s) ==
    LET existing_id == check_exact_duplicate(rows, compute_hash(current))
        near_dupe   == check_near_duplicates(current, s)
        all_calls   == JunkCalls \o HashCalls \o NearCalls(s)
    IN  IF is_junk(current)
        THEN [NoDecision EXCEPT !.kind = "junk", !.text = current, !.calls = all_calls]
        ELSE IF existing_id # NoId
        THEN [NoDecision EXCEPT !.kind = "exact", !.id = existing_id, !.text = current,
                                !.calls = all_calls]
        ELSE IF near_dupe.found
        THEN [NoDecision EXCEPT !.kind = "near", !.id = near_dupe.id,
                                !.sim = near_dupe.sim, !.text = current, !.calls = all_calls]
        ELSE [NoDecision EXCEPT !.kind = "accept", !.id = NewId(rows), !.text = current,
                                !.calls = all_calls]

\* a plausible slip: the nearest-neighbour check is made before the hash lookup
Decide_near_first(current, rows, s) ==
    LET existing_id == check_exact_duplicate(rows, compute_hash(current))
        near_dupe   == check_near_duplicates(current, s)
    IN  IF is_junk(current)
        THEN [NoDecision EXCEPT !.kind = "junk", !.text = current, !.calls = JunkCalls]
        ELSE IF near_dupe.found
        THEN [NoDecision EXCEPT !.kind = "near", !.id = near_dupe.id,
                                !.sim = near_dupe.sim, !.text = current,
                                !.calls = JunkCalls \o NearCalls(s)]
        ELSE IF existing_id # NoId
        THEN [NoDecision EXCEPT !.kind = "exact", !.id = existing_id, !.text = current,
                                !.calls = JunkCalls \o NearCalls(s) \o HashCalls]
        ELSE [NoDecision EXCEPT !.kind = "accept", !.id = NewId(rows), !.text = current,
                                !.calls = JunkCalls \o NearCalls(s) \o HashCalls]

\* the decision of watch_clipboard for a new clipboard text: junk filter,
\* then hash lookup, then nearest neighbour; each rejection ends the handler
Decide(current, rows, s) ==
    LET existing_id == check_exact_duplicate(rows, compute_hash(current))
        near_dupe   == check_near_duplicates(current, s)
    IN  IF is_junk(current)
        THEN [NoDecision EXCEPT !.kind = "junk", !.text = current, !.calls = JunkCalls]
        ELSE IF existing_id # NoId
        THEN [NoDecision EXCEPT !.kind = "exact", !.id = existing_id, !.text = current,
                                !.calls = JunkCalls \o HashCalls]
        ELSE IF near_dupe.found
        THEN [NoDecision EXCEPT !.kind = "near", !.id = near_dupe.id,
                                !.sim = near_dupe.sim, !.text = current,
                                !.calls = JunkCalls \o HashCalls \o NearCalls(s)]
        ELSE [NoDecision EXCEPT !.kind = "accept", !.id = NewId(rows), !.text = current,
                                !.calls = JunkCalls \o HashCalls \o NearCalls(s)]

\* how the rest of a handler goes once the row is inserted: the vectors are
\* added and saved; or encoding raises and the handler's except clause
\* catches it; or the process dies inside save() after n complete writes
\* (torn: the next file partly written)
Outcomes ==
    {[kind |-> "ok", n |-> 4, torn |-> FALSE], [kind |-> "index_error", n |-> 0, torn |-> FALSE]}
    \cup {[kind |-> "crash", n |-> 1, torn |-> t] : t \in BOOLEAN}

\* a plausible slip: the near-duplicate branch does not end the handler
Persists_near_too(d) == d.kind \in {"accept", "near"}

\* the handler goes on to insert and index only when no check rejected
Persists(d) == d.kind = "accept"

\* a watcher process: alive or not, its store object and, for the clipboard
\* watcher, last_text
CwDown == [alive |-> FALSE, store |-> NoStore, last_text |-> NoText]
SwDown == [alive |-> FALSE, store |-> NoStore, processed |-> {}]

-----------------------------------------------------------------------------
(* Search (app/search/semantic_search.py).                                 *)

\* the arguments source_filter and after_timestamp when they are None
NoSource == "none"
NoTimestamp == 0 - 1

\* no semantic_search call was made yet
NoSearch ==
    [op |-> "none", ok |-> TRUE, results |-> <<>>, query |-> NoText, top_k |-> 0,
     mode |-> "all", source_filter |-> NoSource, after_timestamp |-> NoTimestamp]

\* CLIP text encoder stand-in: a deterministic vector of ImageDim features of
\* the query (the number of h, a, c and r in it)
encode_text_for_image_search(text) ==
    <<Count(text, "h"), Count(text, "a"), Count(text, "c"), Count(text, "r")>>

\* DualVectorStore defines no method search_image: the call at
\* semantic_search.py:110 raises AttributeError
search_image(s, query_vector, top_k) ==
    [ok |-> FALSE, distances |-> <<>>, positions |-> <<>>, item_ids |-> <<>>]

Min(a, b) == IF a <= b THEN a ELSE b
Max(a, b) == IF a >= b THEN a ELSE b

\* the ids the filters leave (select Item.id where created_ts >= after and
\* source == source_filter)
valid_item_ids(rows, source_filter, after_timestamp) ==
    {r.id : r \in {x \in rows :
                     /\ (after_timestamp # NoTimestamp => x.created_ts >= after_timestamp)
                     /\ (source_filter # NoSource => x.source = source_filter)}}

\* no depth computed yet
NoDepth == [filtering |-> FALSE, valid |-> 0, total |-> 0, top_k |-> 0, search_k |-> 0]

depth_factor == 2
filtered_depth_cap == 500
filtered_depth_factor == 10

\* a plausible slip: the cap is applied last
search_depth_capped(filtering, valid, total, top_k) ==
    IF filtering
    THEN Min(Max(Cardinality(valid) * depth_factor, top_k * filtered_depth_factor),
             Min(total, filtered_depth_cap))
    ELSE top_k * depth_factor

\* how many neighbours are asked of a space
search_depth(filtering, valid, total, top_k) ==
    IF filtering
    THEN Max(Min(Min(Cardinality(valid) * depth_factor, total), filtered_depth_cap),
             top_k * filtered_depth_factor)
    ELSE top_k * depth_factor

\* a plausible slip: the candidate is kept without looking its row up
Candidates_unhydrated(found, filtering, valid, rows, search_type) ==
    LET n      == Min(Len(found.item_ids), Len(found.distances))
        zipped == [i \in 1..n |-> [id |-> found.item_ids[i], distance |-> found.distances[i],
                                    search_type |-> search_type]]
        keep(c) == /\ c.id # -1
                   /\ (filtering => c.id \in valid)
    IN  SelectSeq(zipped, keep)

\* a plausible slip: the valid set is not consulted
Candidates_unfiltered(found, filtering, valid, rows, search_type) ==
    LET n      == Min(Len(found.item_ids), Len(found.distances))
        zipped == [i \in 1..n |-> [id |-> found.item_ids[i], distance |-> found.distances[i],
                                    search_type |-> search_type]]
        keep(c) == /\ c.id # -1
                   /\ \E r \in rows : /\ r.id = c.id
                                      /\ (search_type = "image" => r.source = "screenshot")
    IN  SelectSeq(zipped, keep)

\* the loop over zip(item_ids, distances[0]): slots without id, ids outside
\* the valid set and ids without a row are skipped; image candidates must
\* be screenshots
Candidates(found, filtering, valid, rows, search_type) ==
    LET n      == Min(Len(found.item_ids), Len(found.distances))
        zipped == [i \in 1..n |-> [id |-> found.item_ids[i], distance |-> found.distances[i],
                                    search_type |-> search_type]]
        keep(c) == /\ c.id # -1
                   /\ (filtering => c.id \in valid)
                   /\ \E r \in rows : /\ r.id = c.id
                                      /\ (search_type = "image" => r.source = "screenshot")
    IN  SelectSeq(zipped, keep)

\* list.sort(key = distance): stable, equal distances keep their order
RECURSIVE SortByDistance(_)
SortByDistance(results) ==
    IF results = <<>> THEN <<>>
    ELSE LET sorted == SortByDistance(SubSeq(results, 1, Len(results) - 1))
             e      == results[Len(results)]
             n      == Cardinality({i \in 1..Len(sorted) : sorted[i].distance <= e.distance})
         IN  SubSeq(sorted, 1, n) \o <<e>> \o SubSeq(sorted, n + 1, Len(sorted))

\* the first occurrence of every item id, as (id, distance)
RECURSIVE UniqueResults(_)
UniqueResults(results) ==
    IF results = <<>> THEN <<>>
    ELSE LET unique == UniqueResults(SubSeq(results, 1, Len(results) - 1))
             e      == results[Len(results)]
         IN  IF \E i \in 1..Len(unique) : unique[i].id = e.id
             THEN unique
             ELSE Append(unique, [id |-> e.id, distance |-> e.distance])

\* a plausible slip: every ranked candidate is returned
Truncate_none(results, top_k) == results

\* unique_results[:top_k]
Truncate(results, top_k) == SubSeq(results, 1, Min(top_k, Len(results)))

\* the call ended with an exception
Raised == [ok |-> FALSE, results |-> <<>>]

\* semantic_search over the record store and the index directory; top_k is
\* given (at least 1, as the API requires)
semantic_search(query_text, top_k, mode, source_filter, after_timestamp, rows, dk) ==
    LET opened    == DualVectorStore(TextDim, ImageDim, dk)
        s         == opened.store
        filtering == after_timestamp # NoTimestamp \/ source_filter # NoSource
        valid     == valid_item_ids(rows, source_filter, after_timestamp)
        text_on   == mode \in {"all", "text"} /\ ntotal(s.text_index) > 0
        image_on  == mode \in {"all", "images"} /\ ntotal(s.image_index) > 0
        text_found  == search_text(s, encode_text_to_vector(query_text),
                                   search_depth(filtering, valid, ntotal(s.text_index), top_k))
        image_found == search_image(s, encode_text_for_image_search(query_text),
                                    search_depth(filtering, valid, ntotal(s.image_index), top_k))
        text_results  == IF text_on
                         THEN Candidates(text_found, filtering, valid, rows, "text")
                         ELSE <<>>
        image_results == IF image_on
                         THEN Candidates(image_found, filtering, valid, rows, "image")
                         ELSE <<>>
        unique    == UniqueResults(SortByDistance(text_results \o image_results))
    IN  IF ~opened.ok THEN Raised
        ELSE IF filtering /\ valid = {} THEN [ok |-> TRUE, results |-> <<>>]
        ELSE IF text_on /\ ~text_found.ok THEN Raised
        ELSE IF image_on /\ ~image_found.ok THEN Raised
        ELSE [ok |-> TRUE, results |-> Truncate(unique, top_k)]

\* extract_text_from_image found nothing
NoTextDetected == <<"[No text detected]">>

\* extract_text_from_image without an OCR reader
OcrUnavailable == <<"[No text detected - OCR unavailable]">>

\* extract_text_from_image: read is what the reader makes of the picture
\* (nothing, too, when reading fails)
extract_text_from_image(reader_available, read) ==
    IF ~reader_available THEN OcrUnavailable
    ELSE IF read = <<>> THEN NoTextDetected
    ELSE read

\* screenshots on which text extraction reports no text: one taken while no
\* OCR reader could be loaded, one in which the reader finds nothing
OcrFiles ==
    { [path |-> "s3.png", bytes |-> <<137, 80, 78, 71, 3>>,
       ocr |-> extract_text_from_image(FALSE, <<"h","a","l","l","o">>),
       image |-> <<0, 0, 1, 0>>],
      [path |-> "s4.png", bytes |-> <<137, 80, 78, 71, 4>>,
       ocr |-> extract_text_from_image(TRUE, <<>>),
       image |-> <<0, 0, 0, 1>>] }

\* the record of the last call on the store object
NoRes ==
    [op |-> "init", ok |-> TRUE, id |-> 0, v |-> <<>>, k |-> 0,
     distances |-> <<>>, positions |-> <<>>, item_ids |-> <<>>,
     after_add |-> FALSE, text_dim |-> 0, image_dim |-> 0]

\* the successful adds made on the object since it was constructed, per space,
\* and whether the constructor left the space empty
NoHist == [text |-> <<>>, image |-> <<>>, text_fresh |-> FALSE, image_fresh |-> FALSE]

-----------------------------------------------------------------------------
(* SpecJunk: is_junk applied to every text of at most MaxJunkLen           *)
(* characters over JunkAlphabet and to the named examples.                 *)

MaxJunkLen == 5

JunkAlphabet == {"c", "m", "d", "+", " ", "C"}

JunkExamples ==
    { <<"a","a","a","a">>,
      <<" "," "," ">>,
      <<"emoji","emoji">>,
      <<"emoji","emoji","emoji","emoji","emoji","emoji">>,
      <<"emoji","+","emoji","+","emoji","+">>,
      <<"o","k">>,
      <<"h","e","l","l","o"," ","w","o","r","l","d">>,
      <<" "," ","a","a","a","a"," ">>,
      <<"C","o","p","i","e","d"," ","t","o"," ","c","l","i","p","b","o","a","r","d","!">>,
      <<"c","o","p","y"," ","s","u","c","c","e","s","s","f","u","l">>,
      <<"h","i","t"," ","C","T","R","L","+","C">>,
      <<"c","t","r","l"," ","+"," ","c">> }

JunkInputs ==
    UNION {[1..n -> JunkAlphabet] : n \in 0..MaxJunkLen} \cup JunkExamples

StoreIdle ==
    /\ store = NoStore
    /\ disk = EmptyDisk
    /\ res = NoRes
    /\ hist = NoHist

SysIdle ==
    /\ db = {}
    /\ cw = CwDown
    /\ sw = SwDown
    /\ files = {}
    /\ cache = {}
    /\ decision = NoDecision
    /\ clock = 0
    /\ sr = NoSearch
    /\ depth = NoDepth

JunkIdle ==
    /\ jText = <<>>
    /\ jResult = "pending"

InitJunk ==
    /\ jText \in JunkInputs
    /\ jResult = "pending"
    /\ StoreIdle
    /\ SysIdle

EvalJunk ==
    /\ jResult = "pending"
    /\ jResult' = IF is_junk(jText) THEN "junk" ELSE "keep"
    /\ UNCHANGED <<jText, storeVars, sysVars>>

NextJunk == EvalJunk

SpecJunk == InitJunk /\ [][NextJunk]_vars

\* the five rules as the specification words them
RuleTooShort(t)       == Len(t) < 5
RuleOnlyWhitespace(t) == \A i \in 1..Len(t) : isspace(t[i])
RuleAllSameChar(t)    == Len(t) >= 1 /\ \A i, j \in 1..Len(t) : t[i] = t[j]
RuleNoAlnum(t)        == \A i \in 1..Len(t) : ~isalnum(t[i])
RuleBoilerplate(t)    == \E p \in junk_patterns : contains(lower(t), p)

\* rule three as the code applies it: to the text without its leading and
\* trailing whitespace
RuleAllSameCharStripped(t) ==
    \E i \in 1..Len(t) :
        /\ ~isspace(t[i])
        /\ \A j \in 1..Len(t) :
               \/ t[j] = t[i]
               \/ isspace(t[j]) /\ ((\A m \in 1..j : isspace(t[m])) \/ (\A m \in j..Len(t) : isspace(t[m])))

JunkExamplesClassified ==
    /\ jText \in { <<"a","a","a","a">>, <<" "," "," ">>, <<"emoji","emoji">>, <<"o","k">>,
                   <<"emoji","emoji","emoji","emoji","emoji","emoji">> }
          => jResult = "junk"
    /\ jText = <<"h","e","l","l","o"," ","w","o","r","l","d">> => jResult = "keep"

\* C3 as stated: is_junk(text) is true exactly when the text is shorter than
\* five characters, or only whitespace, or made of one repeated character,
\* or without any alphanumeric character, or contains a boilerplate pattern
\* once lowercased.
C3_JunkRulesAsStated ==
    jResult # "pending" =>
        /\ (jResult = "junk") <=>
               (\/ RuleTooShort(jText) \/ RuleOnlyWhitespace(jText) \/ RuleAllSameChar(jText)
                \/ RuleNoAlnum(jText) \/ RuleBoilerplate(jText))
        /\ JunkExamplesClassified

\* C3 amended: the same five rules, the third one applied to the text
\* stripped of leading and trailing whitespace; "aaaa", "   ", emoji-only
\* strings and "ok" are junk, "hello world" is not.
C3_JunkRules ==
    jResult # "pending" =>
        /\ (jResult = "junk") <=>
               (\/ RuleTooShort(jText) \/ RuleOnlyWhitespace(jText) \/ RuleAllSameCharStripped(jText)
                \/ RuleNoAlnum(jText) \/ RuleBoilerplate(jText))
        /\ JunkExamplesClassified

\* a padded run of one character, long enough to pass rule one, was classified
C3_Witness ==
    /\ jResult = "junk"
    /\ ~RuleTooShort(jText)
    /\ ~RuleAllSameChar(jText)
    /\ RuleAllSameCharStripped(jText)
    /\ ~RuleBoilerplate(jText)

-----------------------------------------------------------------------------
(* SpecStore: the calls on one DualVectorStore object.  The object is as   *)
(* its constructor leaves it: both spaces empty (no backing files), or the *)
(* text space loaded from an index file that is one vector ahead of its id *)
(* map file (a save() cut short between its first two writes; SpecPersist  *)
(* reaches this object, see PersistReachesLoadedAhead).                    *)

MaxVecs == 3
MaxK    == 2

\* (item id, vector) pairs offered to add_text_vector; the last two have a
\* length that is not TextDim
TextAdds ==
    { [id |-> 1, v |-> <<0, 0, 0>>],
      [id |-> 2, v |-> <<0, 0, 0>>],
      [id |-> 3, v |-> <<1, 1, 0>>],
      [id |-> 4, v |-> <<0, 0>>],
      [id |-> 4, v |-> <<0, 0, 0, 1>>] }

ImageAdds ==
    { [id |-> 5, v |-> <<0, 0, 0, 1>>],
      [id |-> 6, v |-> <<0, 1, 0>>] }

TextQueries == { <<0, 0, 0>>, <<1, 0, 0>>, <<1, 1, 0>>, <<1, 1>>, <<0, 0, 0, 1>> }

LoadedAhead ==
    [NewStore(TextDim, ImageDim) EXCEPT !.text_index.xb = << <<0, 0, 0>>, <<1, 1, 0>> >>,
                                        !.text_id_map   = <<1>>]

InitStore ==
    /\ store \in {DualVectorStore(TextDim, ImageDim, EmptyDisk).store, LoadedAhead}
    /\ disk = EmptyDisk
    /\ res = NoRes
    /\ hist = [text |-> <<>>, image |-> <<>>,
               text_fresh  |-> store.text_index.xb = <<>> /\ store.text_id_map = <<>>,
               image_fresh |-> store.image_index.xb = <<>> /\ store.image_id_map = <<>>]
    /\ JunkIdle
    /\ SysIdle

StoreAddText(a) ==
    /\ store.open
    /\ ntotal(store.text_index) < MaxVecs
    /\ LET r == add_text_vector(store, a.id, a.v)
       IN  /\ store' = r.store
           /\ res' = [NoRes EXCEPT !.op = "add_text", !.ok = r.ok, !.id = a.id, !.v = a.v]
           /\ hist' = IF r.ok THEN [hist EXCEPT !.text = Append(@, a)] ELSE hist
    /\ UNCHANGED <<disk, junkVars, sysVars>>

StoreAddImage(a) ==
    /\ store.open
    /\ ntotal(store.image_index) < MaxVecs
    /\ LET r == add_image_vector(store, a.id, a.v)
       IN  /\ store' = r.store
           /\ res' = [NoRes EXCEPT !.op = "add_image", !.ok = r.ok, !.id = a.id, !.v = a.v]
           /\ hist' = IF r.ok THEN [hist EXCEPT !.image = Append(@, a)] ELSE hist
    /\ UNCHANGED <<disk, junkVars, sysVars>>

\* after_add: the call just before was a successful add_text_vector of the
\* vector now searched for (res.id is then the id that add was given)
StoreSearchText(q, k) ==
    /\ store.open
    /\ LET r == search_text(store, q, k)
       IN  res' = [NoRes EXCEPT !.op = "search_text", !.ok = r.ok, !.v = q, !.k = k,
                                !.distances = r.distances, !.positions = r.positions,
                                !.item_ids = r.item_ids,
                                !.after_add = (res.op = "add_text" /\ res.ok /\ res.v = q),
                                !.id = res.id]
    /\ UNCHANGED <<store, disk, hist, junkVars, sysVars>>

NextStore ==
    \/ \E a \in TextAdds : StoreAddText(a)
    \/ \E a \in ImageAdds : StoreAddImage(a)
    \/ \E q \in TextQueries, k \in 1..MaxK : StoreSearchText(q, k)

SpecStore == InitStore /\ [][NextStore]_vars

\* the id the position map holds at a zero-based position, -1 if it holds none
IdAt(id_map, pos) == IF 0 <= pos /\ pos < Len(id_map) THEN id_map[pos + 1] ELSE -1

\* C5: in each space, after any sequence of successful adds the position
\* map has one entry per stored vector (it is as long as the backing array),
\* and in a space that was empty when the object was constructed the i-th
\* successful add (zero-based) occupies position i with the vector and the
\* item id passed to that add.
C5_PositionMap ==
    /\ Len(hist.text) > 0 =>
           Len(store.text_id_map) = ntotal(store.text_index)
    /\ Len(hist.image) > 0 =>
           Len(store.image_id_map) = ntotal(store.image_index)
    /\ hist.text_fresh =>
           /\ Len(store.text_id_map) = Len(hist.text)
           /\ \A i \in 1..Len(hist.text) :
                  /\ store.text_id_map[i] = hist.text[i].id
                  /\ store.text_index.xb[i] = hist.text[i].v
    /\ hist.image_fresh =>
           /\ Len(store.image_id_map) = Len(hist.image)
           /\ \A i \in 1..Len(hist.image) :
                  /\ store.image_id_map[i] = hist.image[i].id
                  /\ store.image_index.xb[i] = hist.image[i].v

\* C6: an add or a search with a vector whose length is not the dimension of
\* the space fails and leaves the store as it was: nothing is appended to
\* the backing array or to the position map.
C6_WrongDimensionRejected ==
    [][ /\ (res'.op \in {"add_text", "search_text"} /\ Len(res'.v) # store.text_index.d)
            => (~res'.ok /\ store' = store)
        /\ (res'.op = "add_image" /\ Len(res'.v) # store.image_index.d)
            => (~res'.ok /\ store' = store) ]_vars

\* an add of a vector of the image dimension was refused by a text space
\* that holds vectors
C6_Witness ==
    /\ res.op = "add_text"
    /\ ~res.ok
    /\ Len(res.v) = ImageDim
    /\ ntotal(store.text_index) >= 1

\* C8: search_text(q, k) on a space of n vectors returns min(k, n) results
\* (entries with a position; the other k - min(k, n) entries are padding
\* with position -1): the min(k, n) stored vectors nearest to q, in
\* non-decreasing order of squared distance, each with the id the position
\* map holds at its position.
C8_SearchNearest ==
    (res.op = "search_text" /\ res.ok) =>
        LET xb   == store.text_index.xb
            n    == Len(xb)
            m    == IF res.k < n THEN res.k ELSE n
            D(p) == L2sqr(xb[p + 1], res.v)
        IN  /\ Len(res.positions) = res.k
            /\ Len(res.distances) = res.k
            /\ Len(res.item_ids) = res.k
            /\ \A i \in 1..res.k : (res.positions[i] # -1) <=> (i <= m)
            /\ \A i \in 1..m :
                   /\ res.positions[i] \in 0..(n - 1)
                   /\ res.distances[i] = D(res.positions[i])
                   /\ res.item_ids[i] = IdAt(store.text_id_map, res.positions[i])
            /\ \A i, j \in 1..m :
                   i < j => /\ res.positions[i] # res.positions[j]
                            /\ res.distances[i] <= res.distances[j]
            /\ \A p \in 0..(n - 1) :
                   (\A i \in 1..m : res.positions[i] # p)
                       => \A i \in 1..m : res.distances[i] <= D(p)

\* two of three stored vectors were asked for and the nearest is not the
\* first stored one
C8_Witness ==
    /\ res.op = "search_text"
    /\ res.ok
    /\ res.k = 2
    /\ ntotal(store.text_index) = 3
    /\ res.positions[1] = 2
    /\ res.distances[1] < res.distances[2]
    /\ res.item_ids[1] = 3

\* C9 as stated: add(v, id) immediately followed by search(v, k=1) returns
\* distance 0 and item id id, whatever the space already holds.
C9_AddThenSearchAsStated ==
    (res.op = "search_text" /\ res.after_add /\ res.k = 1) =>
        /\ res.distances[1] = 0
        /\ res.item_ids[1] = res.id

\* C9 amended: add(v, id) immediately followed by search(v, k=1) returns
\* distance 0 and the id the position map holds at the earliest position
\* whose vector equals v (-1 if it holds none there); when no equal vector
\* was stored before the add this is the slot just added, and the id is id
\* if the position map is as long as the backing array.
C9_AddThenSearch ==
    (res.op = "search_text" /\ res.after_add /\ res.k = 1) =>
        LET xb == store.text_index.xb
            p  == res.positions[1]
        IN  /\ res.ok
            /\ res.distances[1] = 0
            /\ p \in 0..(Len(xb) - 1)
            /\ xb[p + 1] = res.v
            /\ \A e \in 0..(p - 1) : xb[e + 1] # res.v
            /\ res.item_ids[1] = IdAt(store.text_id_map, p)
            /\ (\A e \in 1..(Len(xb) - 1) : xb[e] # res.v)
                   => /\ p = Len(xb) - 1
                      /\ Len(store.text_id_map) = Len(xb) => res.item_ids[1] = res.id

\* the vector just added was already stored under another id, and the search
\* answered with that earlier slot
C9_Witness ==
    /\ hist.text_fresh
    /\ res.op = "search_text"
    /\ res.after_add
    /\ res.k = 1
    /\ res.distances[1] = 0
    /\ res.positions[1] = 0
    /\ ntotal(store.text_index) = 2
    /\ res.item_ids[1] # res.id

-----------------------------------------------------------------------------
(* SpecPersist: the life of the backing files.  A process constructs a     *)
(* DualVectorStore (loading what is on disk), adds, saves; it may die      *)
(* inside save(); the next process constructs a new object.                *)

MaxSaved == 2

PersistTextAdds  == { [id |-> 1, v |-> <<0, 0, 0>>], [id |-> 2, v |-> <<1, 1, 0>>] }
PersistImageAdds == { [id |-> 2, v |-> <<0, 0, 0, 1>>] }

\* constructor arguments: the configured ones, and those of a build whose
\* text encoder has another output size
DimConfigs == { <<TextDim, ImageDim>>, <<ImageDim, ImageDim>> }

InitPersist ==
    /\ store = NoStore
    /\ disk = EmptyDisk
    /\ res = NoRes
    /\ hist = NoHist
    /\ JunkIdle
    /\ SysIdle

PersistOpen(cfg) ==
    LET r == DualVectorStore(cfg[1], cfg[2], disk)
    IN  /\ store' = r.store
        /\ res' = [NoRes EXCEPT !.op = "open", !.ok = r.ok,
                                !.text_dim = cfg[1], !.image_dim = cfg[2]]
        /\ UNCHANGED <<disk, hist, junkVars, sysVars>>

PersistAddText(a) ==
    /\ store.open
    /\ ntotal(store.text_index) < MaxSaved
    /\ LET r == add_text_vector(store, a.id, a.v)
       IN  /\ store' = r.store
           /\ res' = [NoRes EXCEPT !.op = "add_text", !.ok = r.ok]
    /\ UNCHANGED <<disk, hist, junkVars, sysVars>>

PersistAddImage(a) ==
    /\ store.open
    /\ ntotal(store.image_index) < MaxSaved
    /\ LET r == add_image_vector(store, a.id, a.v)
       IN  /\ store' = r.store
           /\ res' = [NoRes EXCEPT !.op = "add_image", !.ok = r.ok]
    /\ UNCHANGED <<disk, hist, junkVars, sysVars>>

PersistSave ==
    /\ store.open
    /\ disk' = save(store, disk)
    /\ res' = [NoRes EXCEPT !.op = "save"]
    /\ UNCHANGED <<store, hist, junkVars, sysVars>>

\* the process dies inside save(): n writes are complete and, if torn, the
\* next file is partly written
PersistSaveCrash(n, torn) ==
    /\ store.open
    /\ disk' = SaveUpTo(store, disk, n, torn)
    /\ store' = NoStore
    /\ res' = [NoRes EXCEPT !.op = "crash", !.k = n]
    /\ UNCHANGED <<hist, junkVars, sysVars>>

NextPersist ==
    \/ \E cfg \in DimConfigs : PersistOpen(cfg)
    \/ \E a \in PersistTextAdds : PersistAddText(a)
    \/ \E a \in PersistImageAdds : PersistAddImage(a)
    \/ PersistSave
    \/ \E n \in 0..3, torn \in BOOLEAN : PersistSaveCrash(n, torn)

SpecPersist == InitPersist /\ [][NextPersist]_vars

\* the object SpecStore starts from (besides the empty one) is constructed here
PersistReachesLoadedAhead == store = LoadedAhead

\* C7: constructing the store over a backing file whose stored dimension
\* differs from the configured dimension of its space fails; no object holds
\* an index of another dimension than the configured one.
C7_DimensionMismatchFails ==
    /\ (/\ res.op = "open"
        /\ \/ /\ disk.text_index.state = "ok" /\ disk.text_idmap.state = "ok"
              /\ disk.text_index.d # res.text_dim
           \/ /\ disk.image_index.state = "ok" /\ disk.image_idmap.state = "ok"
              /\ disk.image_index.d # res.image_dim)
           => ~res.ok
    /\ store.open => /\ store.text_index.d = store.text_dim
                     /\ store.image_index.d = store.image_dim

\* C10: whenever the process dies inside save(), a later load succeeds and
\* finds, in each space, a position map as long as the backing array.
C10_SaveAtomic ==
    /\ res.op = "open" => res.ok
    /\ store.open => /\ Len(store.text_id_map) = ntotal(store.text_index)
                     /\ Len(store.image_id_map) = ntotal(store.image_index)

\* C11: save() followed by constructing a new store from the files gives a
\* store with the same stats (vectors per space, distinct item ids), the same
\* position maps and, for every probe vector, the same nearest neighbour.
C11_SaveReloadRoundTrip ==
    [][ (res.op = "save" /\ res'.op = "open" /\ store.open)
            => /\ res'.ok
               /\ get_stats(store') = get_stats(store)
               /\ store'.text_id_map = store.text_id_map
               /\ store'.image_id_map = store.image_id_map
               /\ \A q \in TextQueries :
                      search_text(store', q, 1) = search_text(store, q, 1) ]_vars

\* a store holding two text vectors and an image vector was constructed from
\* exactly the files a save of it writes
C11_Witness ==
    /\ res.op = "open"
    /\ store.open
    /\ ntotal(store.text_index) = 2
    /\ Len(store.text_id_map) = 2
    /\ ntotal(store.image_index) = 1
    /\ disk = save(store, disk)

-----------------------------------------------------------------------------
(* Spec: the two watcher processes over one record store and one index     *)
(* directory (run_watchers.py starts both and restarts a dead one), and    *)
(* DELETE /item/{id} of the API server.                                    *)

MaxItemId == 2

\* vectors per space of a store object the model follows
MaxSlots == 3

\* what the user copies
ClipInputs ==
    { <<"h","e","l","l","o">>,
      <<" ","h","e","l","l","o"," ">>,
      <<"h","a","l","l","o">>,
      <<"c","o","l","o","r">>,
      <<"+","+","+","+","+">>,
      <<" "," ">> }

\* screenshots that may appear in the folder: path, bytes, what OCR reads,
\* what the image encoder gives
ScreenFiles ==
    { [path |-> "s1.png", bytes |-> <<137, 80, 78, 71, 1>>,
       ocr |-> <<"h","a","l","l","o">>, image |-> <<1, 0, 0, 0>>],
      [path |-> "s2.png", bytes |-> <<137, 80, 78, 71, 2>>,
       ocr |-> NoTextDetected, image |-> <<0, 1, 0, 0>>] }

Init ==
    /\ JunkIdle
    /\ StoreIdle
    /\ SysIdle

\* run_watchers starts (or restarts) the clipboard watcher: the store is
\* loaded from the index directory; a file that cannot be read ends the
\* process again
CwStart ==
    /\ ~cw.alive
    /\ LET o == DualVectorStore(TextDim, ImageDim, disk)
       IN  /\ o.ok
           /\ cw' = [alive |-> TRUE, store |-> o.store, last_text |-> NoText]
    /\ UNCHANGED <<db, sw, files, cache, decision, disk>>
    /\ UNCHANGED <<jText, jResult, store, res, hist, clock, sr, depth>>

\* the process is terminated between two polls
CwStop ==
    /\ cw.alive
    /\ cw' = CwDown
    /\ UNCHANGED <<db, sw, files, cache, decision, disk>>
    /\ UNCHANGED <<jText, jResult, store, res, hist, clock, sr, depth>>

\* one poll of watch_clipboard that sees a new text
CwPoll(raw) ==
    LET current == read_clipboard_text(raw)
        d       == Decide(current, db, cw.store)
        new_id  == NewId(db)
        item    == Item(new_id, current, compute_hash(current), "clipboard", NoText, clock)
        added   == add_text_vector(cw.store, new_id, encode_text_to_vector(current)).store
    IN  /\ cw.alive
        /\ current # NoText
        /\ current # cw.last_text
        /\ decision' = d
        /\ IF Persists(d)
           THEN /\ new_id <= MaxItemId
                /\ ntotal(cw.store.text_index) < MaxSlots
                /\ db' = db \cup {item}
                /\ \E o \in Outcomes :
                     CASE o.kind = "ok" ->
                          /\ cw' = [cw EXCEPT !.store = added, !.last_text = current]
                          /\ disk' = save(added, disk)
                     [] o.kind = "index_error" ->
                          /\ cw' = [cw EXCEPT !.last_text = current]
                          /\ disk' = disk
                     [] o.kind = "crash" ->
                          /\ cw' = CwDown
                          /\ disk' = SaveUpTo(added, disk, o.n, o.torn)
           ELSE /\ db' = db
                /\ cw' = [cw EXCEPT !.last_text = current]
                /\ disk' = disk
        /\ UNCHANGED <<sw, files, cache>>
        /\ UNCHANGED <<jText, jResult, store, res, hist, clock, sr, depth>>

\* the screenshot watcher starts: store and processed-files cache are
\* loaded; files older than the start are never looked at
SwStart ==
    /\ ~sw.alive
    /\ LET o == DualVectorStore(TextDim, ImageDim, disk)
       IN  /\ o.ok
           /\ sw' = [alive |-> TRUE, store |-> o.store, processed |-> cache]
    /\ files' = {}
    /\ UNCHANGED <<db, cw, cache, decision, disk>>
    /\ UNCHANGED <<jText, jResult, store, res, hist, clock, sr, depth>>

SwStop ==
    /\ sw.alive
    /\ sw' = SwDown
    /\ UNCHANGED <<db, cw, files, cache, decision, disk>>
    /\ UNCHANGED <<jText, jResult, store, res, hist, clock, sr, depth>>

\* a screenshot is written to the folder while the watcher runs
NewScreenshot(f) ==
    /\ sw.alive
    /\ f \notin files
    /\ files' = files \cup {f}
    /\ UNCHANGED <<db, cw, sw, cache, decision, disk>>
    /\ UNCHANGED <<jText, jResult, store, res, hist, clock, sr, depth>>

\* watch_screenshots handles one new file
SwProcess(f) ==
    LET text        == f.ocr
        image_hash  == compute_image_hash(f)
        existing_id == check_exact_duplicate(db, image_hash)
        item_id     == NewId(db)
        item        == Item(item_id, text, image_hash, "screenshot", <<f.path>>, clock)
        with_text   == IF text # NoTextDetected
                       THEN add_text_vector(sw.store, item_id, encode_text_to_vector(text)).store
                       ELSE sw.store
        with_image  == add_image_vector(with_text, item_id, f.image).store
    IN  /\ sw.alive
        /\ f \in files
        /\ f.path \notin sw.processed
        /\ IF existing_id # NoId
           THEN UNCHANGED <<db, sw, cache, disk>>
           ELSE /\ item_id <= MaxItemId
                /\ ntotal(sw.store.text_index) < MaxSlots
                /\ ntotal(sw.store.image_index) < MaxSlots
                /\ db' = db \cup {item}
                /\ \E o \in Outcomes :
                     CASE o.kind = "ok" ->
                          /\ sw' = [sw EXCEPT !.store = with_image,
                                              !.processed = @ \cup {f.path}]
                          /\ disk' = save(with_image, disk)
                          /\ cache' = sw.processed \cup {f.path}
                     [] o.kind = "index_error" ->
                          /\ sw' = [sw EXCEPT !.store = with_text]
                          /\ UNCHANGED <<disk, cache>>
                     [] o.kind = "crash" ->
                          /\ sw' = SwDown
                          /\ disk' = SaveUpTo(with_image, disk, o.n, o.torn)
                          /\ cache' = cache
        /\ UNCHANGED <<cw, files, decision>>
        /\ UNCHANGED <<jText, jResult, store, res, hist, clock, sr, depth>>

\* DELETE /item/{item_id}: the row goes, the index is not touched
delete_item(item_id) ==
    /\ item_id \in ItemIds(db)
    /\ db' = {r \in db : r.id # item_id}
    /\ UNCHANGED <<cw, sw, files, cache, decision, disk>>
    /\ UNCHANGED <<jText, jResult, store, res, hist, clock, sr, depth>>

\* the clipboard pipeline
Next ==
    \/ CwStart
    \/ CwStop
    \/ \E raw \in ClipInputs : CwPoll(raw)
    \/ \E item_id \in 1..MaxItemId : delete_item(item_id)

Spec == Init /\ [][Next]_vars

\* the screenshot pipeline
NextScreens ==
    \/ SwStart
    \/ SwStop
    \/ \E f \in ScreenFiles : NewScreenshot(f)
    \/ \E f \in ScreenFiles : SwProcess(f)
    \/ \E item_id \in 1..MaxItemId : delete_item(item_id)

SpecScreens == Init /\ [][NextScreens]_vars

\* a step of Spec in which the clipboard watcher evaluated text t
Evaluated(t) ==
    /\ cw.alive
    /\ cw.last_text # t
    /\ decision'.text = t
    /\ \/ cw'.alive /\ cw'.last_text = t
       \/ ~cw'.alive /\ db' # db

\* C1: once a clipboard text was accepted and its row is still in the record
\* store, evaluating the same text again gives the exact-duplicate decision
\* with that row's id, and adds no row and no vector (nothing is saved)
C1_ExactDuplicate ==
    [][ \A r \in db :
          (r.source = "clipboard" /\ Evaluated(r.text))
              => /\ decision'.kind = "exact"
                 /\ decision'.id = r.id
                 /\ db' = db
                 /\ cw'.store = cw.store
                 /\ disk' = disk ]_vars

\* two rows are in the store and the text of one of them, copied again, was
\* found by its hash
C1_Witness ==
    /\ cw.alive
    /\ decision.kind = "exact"
    /\ Cardinality(db) = 2
    /\ \E r \in db : r.source = "clipboard" /\ r.text = decision.text /\ r.id = decision.id
    /\ cw.last_text = decision.text

\* C2: when the clipboard watcher decides junk, exact duplicate or near
\* duplicate, no row is inserted, no vector is added to either space and
\* nothing is written to the index directory
C2_ChangeOnlyOnAccept ==
    [][ \A raw \in ClipInputs :
          (Evaluated(read_clipboard_text(raw)) /\ decision'.kind \in {"junk", "exact", "near"})
              => /\ db' = db
                 /\ cw'.store = cw.store
                 /\ disk' = disk ]_vars

\* a near duplicate was rejected on a store that was never saved
C2_Witness ==
    /\ cw.alive
    /\ decision.kind = "near"
    /\ decision.sim = 99
    /\ cw.last_text = decision.text
    /\ ntotal(cw.store.text_index) = 1
    /\ Cardinality(db) = 1

\* C4: a text that is not junk and not an exact duplicate is rejected as a
\* near duplicate of the nearest neighbour's id, with similarity 1 - d/10,
\* exactly when the text space holds a vector and the nearest one is at
\* squared distance d < 0.3; otherwise it is accepted
C4_NearDuplicateDecision ==
    [][ \A raw \in ClipInputs :
          LET t       == read_clipboard_text(raw)
              nearest == index_search(cw.store.text_index, encode_text_to_vector(t), 1)
          IN  (Evaluated(t) /\ decision'.kind \in {"near", "accept"})
                  => IF ntotal(cw.store.text_index) > 0 /\ nearest.distances[1] < near_threshold
                     THEN /\ decision'.kind = "near"
                          /\ decision'.id = IdAt(cw.store.text_id_map, nearest.positions[1])
                          /\ decision'.sim = similarity(nearest.distances[1])
                     ELSE decision'.kind = "accept" ]_vars

-----------------------------------------------------------------------------
(* SpecSearch: semantic_search calls against the record store and the      *)
(* index directory, which the screenshot watcher fills and DELETE          *)
(* /item/{id} thins out.  The clipboard watcher has accepted "hello" or    *)
(* nothing before; a call is answered before the system moves on.          *)

MaxClock == 1

SearchQueries == { <<"h","e","l","l","o">> }
TopKs == {1, 2}
SearchModes == {"all", "text", "images"}
SourceFilters == {NoSource, "screenshot"}
AfterTimestamps == {NoTimestamp, 1}

\* what the clipboard watcher left behind when it accepted "hello" at time 0
HelloRow ==
    Item(1, <<"h","e","l","l","o">>, compute_hash(<<"h","e","l","l","o">>), "clipboard", NoText, 0)
HelloDisk ==
    save(add_text_vector(NewStore(TextDim, ImageDim), 1,
                         encode_text_to_vector(<<"h","e","l","l","o">>)).store, EmptyDisk)

InitSearch ==
    /\ JunkIdle
    /\ store = NoStore
    /\ res = NoRes
    /\ hist = NoHist
    /\ \/ db = {} /\ disk = EmptyDisk
       \/ db = {HelloRow} /\ disk = HelloDisk
    /\ cw = CwDown
    /\ sw = SwDown
    /\ files = {}
    /\ cache = {}
    /\ decision = NoDecision
    /\ clock = 0
    /\ sr = NoSearch
    /\ depth = NoDepth

\* a second passes (seconds are followed while the watcher is down)
Tick ==
    /\ ~sw.alive
    /\ clock < MaxClock
    /\ clock' = clock + 1
    /\ UNCHANGED <<junkVars, storeVars, db, cw, sw, files, cache, decision, sr, depth>>

\* GET /search: one call of semantic_search
SearchCall(q, k, mode, source_filter, after_timestamp) ==
    /\ sr = NoSearch
    /\ LET r == semantic_search(q, k, mode, source_filter, after_timestamp, db, disk)
       IN  sr' = [op |-> "search", ok |-> r.ok, results |-> r.results, query |-> q,
                  top_k |-> k, mode |-> mode, source_filter |-> source_filter,
                  after_timestamp |-> after_timestamp]
    /\ UNCHANGED <<junkVars, storeVars, db, cw, sw, files, cache, decision, clock, depth>>

\* the response is delivered
SearchReturn ==
    /\ sr # NoSearch
    /\ sr' = NoSearch
    /\ UNCHANGED <<junkVars, storeVars, db, cw, sw, files, cache, decision, clock, depth>>

NextSearch ==
    \/ sr = NoSearch /\ SwStart
    \/ sr = NoSearch /\ \E f \in ScreenFiles : NewScreenshot(f)
    \/ sr = NoSearch /\ \E f \in ScreenFiles : SwProcess(f)
    \/ sr = NoSearch /\ \E item_id \in 1..MaxItemId : delete_item(item_id)
    \/ sr = NoSearch /\ Tick
    \/ \E q \in SearchQueries, k \in TopKs, mode \in SearchModes,
          source_filter \in SourceFilters, after_timestamp \in AfterTimestamps :
              SearchCall(q, k, mode, source_filter, after_timestamp)
    \/ SearchReturn

SpecSearch == InitSearch /\ [][NextSearch]_vars

\* the clipboard pipeline reaches the second starting point of SpecSearch
SpecReachesHello == db = {HelloRow} /\ disk = HelloDisk

\* the store a call constructs from the index directory
OnDisk == DualVectorStore(TextDim, ImageDim, disk).store
Loadable == DualVectorStore(TextDim, ImageDim, disk).ok

\* the raw squared distances from the query to the slots that carry an id
SlotDistances(id) ==
    {L2sqr(OnDisk.text_index.xb[p], encode_text_to_vector(sr.query)) :
        p \in {x \in 1..Len(OnDisk.text_id_map) : OnDisk.text_id_map[x] = id}}
    \cup
    {L2sqr(OnDisk.image_index.xb[p], encode_text_for_image_search(sr.query)) :
        p \in {x \in 1..Len(OnDisk.image_id_map) : OnDisk.image_id_map[x] = id}}

InBothSpaces ==
    {r.id : r \in {x \in db :
        /\ x.source = "screenshot"
        /\ (sr.after_timestamp # NoTimestamp => x.created_ts >= sr.after_timestamp)
        /\ (sr.source_filter # NoSource => x.source = sr.source_filter)
        /\ \E p \in 1..Len(OnDisk.text_id_map) : OnDisk.text_id_map[p] = x.id
        /\ \E p \in 1..Len(OnDisk.image_id_map) : OnDisk.image_id_map[p] = x.id}}

Occurrences(id) == Cardinality({i \in 1..Len(sr.results) : sr.results[i].id = id})

\* C13: no item id occurs twice in a result; when an item has candidates in
\* both spaces the call in mode all returns, and the item is in the result at
\* most once (once when all slots fit the depth and top_k), at the lowest of
\* its distances.
C13_NoDuplicateIds ==
    sr.op = "search" =>
        /\ sr.ok => \A i, j \in 1..Len(sr.results) :
                        sr.results[i].id = sr.results[j].id => i = j
        /\ (sr.mode = "all" /\ Loadable /\ InBothSpaces # {}) =>
               /\ sr.ok
               /\ \A id \in InBothSpaces :
                      /\ Occurrences(id) <= 1
                      /\ \A i \in 1..Len(sr.results) :
                             sr.results[i].id = id =>
                                 \A d \in SlotDistances(id) : sr.results[i].distance <= d

\* C14: with a timestamp or a source filter, every returned item has a row
\* that satisfies the filters.
C14_OnlyEligible ==
    (sr.op = "search" /\ sr.ok) =>
        \A i \in 1..Len(sr.results) :
            \E r \in db :
                /\ r.id = sr.results[i].id
                /\ (sr.after_timestamp # NoTimestamp => r.created_ts >= sr.after_timestamp)
                /\ (sr.source_filter # NoSource => r.source = sr.source_filter)

\* a filtered call returned an item although an older clipboard item, which
\* the filters exclude, is nearer to the query
C14_Witness ==
    /\ sr.op = "search"
    /\ sr.ok
    /\ sr.after_timestamp = 1
    /\ sr.source_filter = "screenshot"
    /\ Len(sr.results) = 1
    /\ sr.results[1].distance > 0
    /\ HelloRow \in db
    /\ 0 \in SlotDistances(HelloRow.id)

\* C15: a mode whose space is empty gives no candidates and no error: mode
\* text over an empty text space returns the empty list, and mode all with
\* exactly one empty space returns.
C15_EmptySpaceNoError ==
    (sr.op = "search" /\ Loadable) =>
        /\ (sr.mode = "text" /\ ntotal(OnDisk.text_index) = 0)
               => (sr.ok /\ sr.results = <<>>)
        /\ (sr.mode = "all" /\ ntotal(OnDisk.text_index) = 0 /\ ntotal(OnDisk.image_index) > 0)
               => sr.ok
        /\ (sr.mode = "all" /\ ntotal(OnDisk.text_index) > 0 /\ ntotal(OnDisk.image_index) = 0)
               => sr.ok

\* C17: (pipeline Spec) when a text is rejected as a near duplicate, the id
\* named by the decision is the id of a row of the record store at that moment.
C17_NearDuplicateOfStoredItem ==
    [][ \A raw \in ClipInputs :
          (Evaluated(read_clipboard_text(raw)) /\ decision'.kind = "near")
              => decision'.id \in ItemIds(db) ]_vars

\* what the loop over the image space keeps when the search hands it every
\* slot of the space
ImageCandidates ==
    Candidates([item_ids  |-> OnDisk.image_id_map,
                distances |-> [p \in 1..Len(OnDisk.image_id_map) |-> 0]],
               sr.after_timestamp # NoTimestamp \/ sr.source_filter # NoSource,
               valid_item_ids(db, sr.source_filter, sr.after_timestamp), db, "image")

StageOrder ==
    <<"is_junk", "compute_hash", "check_exact_duplicate", "check_near_duplicates",
      "encode_text_to_vector", "search_text">>

Called(c) == \E i \in 1..Len(decision.calls) : decision.calls[i] = c

\* C27: (pipeline Spec) the calls behind a clipboard decision follow the order
\* junk check, hash, exact lookup, near lookup; a junk decision was reached
\* without hashing or lookup; an exact-duplicate decision without the near
\* lookup, text encoding or a search of the text space.
C27_StagesInOrder ==
    decision.kind # "none" =>
        /\ Len(decision.calls) <= Len(StageOrder)
        /\ \A i \in 1..Len(decision.calls) : decision.calls[i] = StageOrder[i]
        /\ Called("is_junk")
        /\ decision.kind = "junk" =>
               ~Called("compute_hash") /\ ~Called("check_exact_duplicate")
                   /\ ~Called("check_near_duplicates")
        /\ decision.kind = "exact" =>
               Called("check_exact_duplicate") /\ ~Called("check_near_duplicates")
                   /\ ~Called("encode_text_to_vector") /\ ~Called("search_text")
        /\ decision.kind \in {"near", "accept"} => Called("check_near_duplicates")

\* a text was rejected as an exact duplicate by a watcher whose text space is
\* not empty, so that the near lookup would have encoded and searched
C27_Witness ==
    /\ decision.kind = "exact"
    /\ cw.alive
    /\ cw.last_text = decision.text
    /\ ntotal(cw.store.text_index) > 0
    /\ Len(decision.calls) = 3

\* C29: (SpecSearch) with after_timestamp = T every returned item was
\* created later than T.
C29_StrictlyAfter ==
    (sr.op = "search" /\ sr.ok /\ sr.after_timestamp # NoTimestamp) =>
        \A i \in 1..Len(sr.results) :
            \A r \in db : r.id = sr.results[i].id => r.created_ts > sr.after_timestamp

\* ---------------------------------------------------------------------------
\* SpecRebuild: the rebuild script run against what the screenshot watcher and
\* deletions have left in the record store and in the index directory
\* ---------------------------------------------------------------------------

\* read_all_items: the rows in ascending order of id
RECURSIVE read_all_items(_)
read_all_items(rows) ==
    IF rows = {} THEN <<>>
    ELSE LET first == CHOOSE r \in rows : \A x \in rows : r.id <= x.id
         IN  <<first>> \o read_all_items(rows \ {first})

\* the picture behind a blob_uri (screenshots are never removed from the folder)
ImageAt(blob_uri) == (CHOOSE f \in ScreenFiles \cup OcrFiles : <<f.path>> = blob_uri).image

\* the loop over the clipboard items: one text vector each
RECURSIVE AddClipboardItems(_, _)
AddClipboardItems(s, items) ==
    IF items = <<>> THEN s
    ELSE AddClipboardItems(
             add_text_vector(s, Head(items).id, encode_text_to_vector(Head(items).text)).store,
             Tail(items))

\* the loop over the screenshot items: the OCR text unless it is empty or the
\* sentinel, then the picture; when encode_image raises for an item (its id is
\* in failing) the item is logged and the loop goes on
RECURSIVE AddScreenshotItems(_, _, _)
AddScreenshotItems(s, items, failing) ==
    IF items = <<>> THEN s
    ELSE LET item       == Head(items)
             with_text  == IF item.text # <<>> /\ item.text # NoTextDetected
                           THEN add_text_vector(s, item.id, encode_text_to_vector(item.text)).store
                           ELSE s
             with_image == IF item.blob_uri # NoText /\ item.id \notin failing
                           THEN add_image_vector(with_text, item.id, ImageAt(item.blob_uri)).store
                           ELSE with_text
         IN  AddScreenshotItems(with_image, Tail(items), failing)

\* rebuild_index: nothing is done for an empty record store; otherwise the
\* store is loaded, emptied, filled from the rows and saved. text_encoder_up
\* is whether encode_many_texts works for the clipboard batch, which has no
\* handler around it.
rebuild_index(rows, dk, text_encoder_up, failing) ==
    LET all_rows         == read_all_items(rows)
        opened           == DualVectorStore(TextDim, ImageDim, dk)
        reset            == [opened.store EXCEPT !.text_index.xb = <<>>, !.text_id_map = <<>>,
                                                 !.image_index.xb = <<>>, !.image_id_map = <<>>]
        text_items       == SelectSeq(all_rows, LAMBDA r : r.source = "clipboard")
        screenshot_items == SelectSeq(all_rows, LAMBDA r : r.source = "screenshot")
        built            == AddScreenshotItems(AddClipboardItems(reset, text_items),
                                               screenshot_items, failing)
        skipped          == SelectSeq(screenshot_items, LAMBDA r : r.id \in failing)
    IN  IF rows = {}
        THEN [ok |-> TRUE, store |-> NoStore, disk |-> dk, skipped |-> <<>>]
        ELSE IF ~opened.ok
        THEN [ok |-> FALSE, store |-> NoStore, disk |-> dk, skipped |-> <<>>]
        ELSE IF text_items # <<>> /\ ~text_encoder_up
        THEN [ok |-> FALSE, store |-> reset, disk |-> dk, skipped |-> <<>>]
        ELSE [ok |-> TRUE, store |-> built, disk |-> save(built, dk),
              skipped |-> [i \in 1..Len(skipped) |-> skipped[i].id]]

\* the script runs; res keeps whether it returned and the ids it logged as
\* failed, store is the object it built
RebuildRun(text_encoder_up, failing) ==
    LET r == rebuild_index(db, disk, text_encoder_up, failing)
    IN  /\ res = NoRes
        /\ failing \subseteq {x.id : x \in {y \in db : y.source = "screenshot"}}
        /\ res' = [NoRes EXCEPT !.op = "rebuild", !.ok = r.ok, !.item_ids = r.skipped]
        /\ store' = r.store
        /\ disk' = r.disk
        /\ UNCHANGED <<db, cw, sw, files, cache, decision>>
        /\ UNCHANGED <<jText, jResult, hist, clock, sr, depth>>

\* the script's process ends
RebuildExit ==
    /\ res.op = "rebuild"
    /\ res' = NoRes
    /\ store' = NoStore
    /\ UNCHANGED <<db, cw, sw, files, cache, decision, disk>>
    /\ UNCHANGED <<jText, jResult, hist, clock, sr, depth>>

NextRebuild ==
    \/ (res = NoRes /\ SwStart)
    \/ (res = NoRes /\ \E f \in ScreenFiles : NewScreenshot(f))
    \/ (res = NoRes /\ \E f \in ScreenFiles : SwProcess(f))
    \/ (res = NoRes /\ \E item_id \in 1..MaxItemId : delete_item(item_id))
    \/ \E text_encoder_up \in BOOLEAN, failing \in SUBSET (1..MaxItemId) :
           RebuildRun(text_encoder_up, failing)
    \/ RebuildExit

SpecRebuild == InitSearch /\ [][NextRebuild]_vars

\* the (id, vector) slots of a space
Slots(index, id_map) ==
    {<<id_map[p], index.xb[p]>> : p \in 1..Min(Len(id_map), ntotal(index))}

TextSlotsOfRows ==
    {<<r.id, encode_text_to_vector(r.text)>> :
        r \in {x \in db : x.source = "clipboard"
                          \/ (x.source = "screenshot" /\ x.text # <<>> /\ x.text # NoTextDetected)}}

ImageSlotsOfRows ==
    {<<r.id, ImageAt(r.blob_uri)>> :
        r \in {x \in db : x.source = "screenshot" /\ x.blob_uri # NoText
                          /\ \A i \in 1..Len(res.item_ids) : res.item_ids[i] # x.id}}

HoldsExactlyTheRows(s) ==
    /\ Len(s.text_id_map) = ntotal(s.text_index)
    /\ Len(s.image_id_map) = ntotal(s.image_index)
    /\ Slots(s.text_index, s.text_id_map) = TextSlotsOfRows
    /\ Slots(s.image_index, s.image_id_map) = ImageSlotsOfRows
    /\ ntotal(s.text_index) = Cardinality(TextSlotsOfRows)
    /\ ntotal(s.image_index) = Cardinality(ImageSlotsOfRows)

\* C16: when rebuild_index has returned, the spaces on disk, and those of the
\* object the script built, hold exactly one slot per vector of the rows in
\* the record store (less the pictures the script logged as failed) and no
\* other slot, whatever the record store holds, the empty one included.
C16_RebuildExact ==
    (res.op = "rebuild" /\ res.ok) =>
        /\ Loadable
        /\ HoldsExactlyTheRows(OnDisk)
        /\ store.open => HoldsExactlyTheRows(store)

\* ---------------------------------------------------------------------------
\* SpecWatchers: the two watchers as run_watchers starts them, each a process
\* with its own store object over the same index directory; a watcher that
\* died is started again
\* ---------------------------------------------------------------------------

NextWatchers ==
    \/ CwStart
    \/ \E raw \in ClipInputs : CwPoll(raw)
    \/ SwStart
    \/ \E f \in ScreenFiles : NewScreenshot(f)
    \/ \E f \in ScreenFiles : SwProcess(f)

SpecWatchers == Init /\ [][NextWatchers]_vars

\* the slots of both spaces of a store, tagged with their space
SlotsOf(s) ==
    {<<"text", x>> : x \in Slots(s.text_index, s.text_id_map)}
    \cup {<<"image", x>> : x \in Slots(s.image_index, s.image_id_map)}

SlotsOnDisk == SlotsOf(OnDisk)

\* C18: while both watchers run, a step of either (a save included) leaves
\* on disk every vector that was on disk before it.
C18_SaveKeepsSavedVectors ==
    [][ (cw.alive /\ sw.alive /\ cw'.alive /\ sw'.alive /\ Loadable /\ Loadable')
            => SlotsOnDisk \subseteq SlotsOnDisk' ]_vars

\* C19: (screenshot pipeline SpecScreens) between two inputs of the running
\* watcher, every vector its store holds is in the files on disk.
C19_SavedBeforeNextInput ==
    sw.alive => (Loadable /\ SlotsOf(sw.store) \subseteq SlotsOnDisk)

\* the ids that have a slot in a space of store s
IdsIn(s) ==
    {s.text_id_map[p] : p \in 1..Len(s.text_id_map)}
    \cup {s.image_id_map[p] : p \in 1..Len(s.image_id_map)}

\* C20: (screenshot pipeline SpecScreens) when the watcher stores an item and
\* indexing fails (the watcher goes on, nothing is saved, the file is not
\* marked as processed), the item has a row and no slot in any space, in the
\* watcher's store or on disk.
C20_FailedItemHasNoVector ==
    [][ \A r \in db' \ db :
          (sw.alive /\ sw'.alive /\ cache' = cache /\ disk' = disk)
              => /\ r.id \notin IdsIn(sw'.store)
                 /\ Loadable' => r.id \notin IdsIn(OnDisk') ]_vars

\* C21: (SpecRebuild) a run of rebuild_index over a non-empty record store and
\* a readable index directory returns, whichever encoder call failed, and
\* has saved the vectors of every row it did not log as failed.
C21_RebuildSkipsFailures ==
    (res.op = "rebuild" /\ db # {} /\ Loadable) =>
        /\ res.ok
        /\ TextSlotsOfRows \subseteq Slots(OnDisk.text_index, OnDisk.text_id_map)
        /\ ImageSlotsOfRows \subseteq Slots(OnDisk.image_index, OnDisk.image_id_map)

\* C22: (SpecSearch) a call in mode all or images over a readable index
\* directory with a non-empty image space returns.
C22_ImageSearchReturns ==
    (/\ sr.op = "search"
     /\ sr.mode \in {"all", "images"}
     /\ Loadable
     /\ ntotal(OnDisk.image_index) > 0) => sr.ok

\* ---------------------------------------------------------------------------
\* SpecDepth: the search depth semantic_search computes for a space, over the
\* sizes of the valid set, of the space and of top_k
\* ---------------------------------------------------------------------------

\* sizes of the valid set (the call has returned before when it is empty)
DepthValidSizes == {1, 2, 3, 5, 249, 250, 251, 400}
\* index.ntotal of a searched space (a space is searched when it is not empty)
DepthTotals == {1, 2, 5, 20, 499, 500, 501, 1000}
\* top_k as GET /search accepts it (ge=1, le=100)
DepthTopKs == {1, 2, 3, 10, 49, 50, 51, 100}

InitDepth ==
    /\ JunkIdle
    /\ StoreIdle
    /\ SysIdle

\* the depth is computed for one space
DepthCall(filtering, n, total, top_k) ==
    /\ depth' = [filtering |-> filtering, valid |-> n, total |-> total, top_k |-> top_k,
                 search_k |-> search_depth(filtering, 1..n, total, top_k)]
    /\ UNCHANGED <<junkVars, storeVars, db, cw, sw, files, cache, decision, clock, sr>>

NextDepth ==
    \/ \E n \in DepthValidSizes, total \in DepthTotals, top_k \in DepthTopKs :
           DepthCall(TRUE, n, total, top_k)
    \/ \E total \in DepthTotals, top_k \in DepthTopKs :
           DepthCall(FALSE, 0, total, top_k)

SpecDepth == InitDepth /\ [][NextDepth]_vars

\* min(2*|valid|, ntotal, 500) for the call in depth
DepthCap ==
    LET a == 2 * depth.valid
        b == IF a <= depth.total THEN a ELSE depth.total
    IN  IF b <= 500 THEN b ELSE 500

\* C24 as stated: the depth is 2*top_k without a filter; with a filter it is
\* at least 10*top_k and at most min(2*|valid|, ntotal, 500).
C24_DepthAsStated ==
    depth # NoDepth =>
        IF depth.filtering
        THEN depth.search_k >= 10 * depth.top_k /\ depth.search_k <= DepthCap
        ELSE depth.search_k = 2 * depth.top_k

\* C24: the depth is 2*top_k without a filter; with a filter it is the larger
\* of 10*top_k and min(2*|valid|, ntotal, 500): never less than 10*top_k,
\* and above the cap exactly when 10*top_k is.
C24_Depth ==
    depth # NoDepth =>
        IF depth.filtering
        THEN /\ depth.search_k >= 10 * depth.top_k
             /\ depth.search_k >= DepthCap
             /\ depth.search_k \in {10 * depth.top_k, DepthCap}
        ELSE depth.search_k = 2 * depth.top_k

\* a filtered call whose depth is the cap of 500, above 10*top_k
C24_Witness ==
    /\ depth.filtering
    /\ depth.search_k = 500
    /\ 10 * depth.top_k < 500
    /\ depth.valid >= 250
    /\ depth.total >= 500

\* ---------------------------------------------------------------------------
\* SpecCrowd: semantic_search over a record store in which screenshots with
\* the same OCR text were ingested before a clipboard text.  The screenshot
\* watcher accepts them all (only the bytes of the file are compared); the
\* clipboard text is stored a second later and is not a near duplicate.
\* ---------------------------------------------------------------------------

MaxCrowd == 11

CrowdPaths ==
    <<"c01.png", "c02.png", "c03.png", "c04.png", "c05.png", "c06.png",
      "c07.png", "c08.png", "c09.png", "c10.png", "c11.png", "c12.png">>

\* the i-th screenshot: its own bytes (no two digests agree, and none is the
\* digest of the clipboard text), the OCR text of all of them
CrowdFile(i) ==
    [path |-> CrowdPaths[i], bytes |-> <<137, 80, 78, 71, 40 + i>>,
     ocr |-> <<"h","e","l","l","o">>, image |-> <<0, 0, 1, 0>>]

\* the rows watch_screenshots stored for the first n screenshots
CrowdRows(n) ==
    {Item(i, CrowdFile(i).ocr, compute_image_hash(CrowdFile(i)), "screenshot",
          <<CrowdFile(i).path>>, 0) : i \in 1..n}

\* the store after these n screenshots
RECURSIVE CrowdStore(_)
CrowdStore(n) ==
    IF n = 0 THEN NewStore(TextDim, ImageDim)
    ELSE add_image_vector(
             add_text_vector(CrowdStore(n - 1), n,
                             encode_text_to_vector(CrowdFile(n).ocr)).store,
             n, CrowdFile(n).image).store

\* the clipboard text stored afterwards, at second 1
LateRow(n) ==
    Item(n + 1, <<"c","o","l","o","r">>, compute_hash(<<"c","o","l","o","r">>),
         "clipboard", NoText, 1)

LateStore(n) ==
    add_text_vector(CrowdStore(n), n + 1,
                    encode_text_to_vector(<<"c","o","l","o","r">>)).store

InitCrowd ==
    /\ JunkIdle
    /\ store = NoStore
    /\ res = NoRes
    /\ hist = NoHist
    /\ \E n \in 0..MaxCrowd :
          /\ db = CrowdRows(n) \cup {LateRow(n)}
          /\ disk = save(LateStore(n), EmptyDisk)
    /\ cw = CwDown
    /\ sw = SwDown
    /\ files = {}
    /\ cache = {}
    /\ decision = NoDecision
    /\ clock = 1
    /\ sr = NoSearch
    /\ depth = NoDepth

NextCrowd ==
    \/ \E q \in SearchQueries, k \in TopKs, mode \in SearchModes,
          source_filter \in SourceFilters, after_timestamp \in AfterTimestamps :
              SearchCall(q, k, mode, source_filter, after_timestamp)
    \/ SearchReturn

SpecCrowd == InitCrowd /\ [][NextCrowd]_vars

\* the rows that pass the filters of the call and have a slot in the text space
EligibleInText ==
    {r \in db :
        /\ (sr.after_timestamp # NoTimestamp => r.created_ts >= sr.after_timestamp)
        /\ (sr.source_filter # NoSource => r.source = sr.source_filter)
        /\ \E p \in 1..Len(OnDisk.text_id_map) : OnDisk.text_id_map[p] = r.id}

\* C23: (SpecCrowd) a filtered call in mode text returns exactly top_k
\* results when at least top_k rows pass the filters and have a vector in the
\* text space.
C23_FilteredReturnsK ==
    (/\ sr.op = "search"
     /\ sr.mode = "text"
     /\ (sr.after_timestamp # NoTimestamp \/ sr.source_filter # NoSource)
     /\ Loadable
     /\ Cardinality(EligibleInText) >= sr.top_k)
        => (sr.ok /\ Len(sr.results) = sr.top_k)

\* ---------------------------------------------------------------------------
\* SpecShared: both watchers over one index directory while items are
\* deleted; one text is copied to the clipboard
\* ---------------------------------------------------------------------------

SharedClipInputs == { <<"c","o","l","o","r">> }

NextShared ==
    \/ CwStart
    \/ \E raw \in SharedClipInputs : CwPoll(raw)
    \/ SwStart
    \/ \E f \in ScreenFiles : NewScreenshot(f)
    \/ \E f \in ScreenFiles : SwProcess(f)
    \/ \E item_id \in 1..MaxItemId : delete_item(item_id)

SpecShared == Init /\ [][NextShared]_vars

IsPrefix(a, b) == Len(a) <= Len(b) /\ \A i \in 1..Len(a) : a[i] = b[i]

\* every slot of s is a slot of t, at the same position
KeepsSlots(s, t) ==
    /\ IsPrefix(s.text_id_map, t.text_id_map)
    /\ IsPrefix(s.text_index.xb, t.text_index.xb)
    /\ IsPrefix(s.image_id_map, t.image_id_map)
    /\ IsPrefix(s.image_index.xb, t.image_index.xb)

\* position p of a space of s carries an id without a row, and t has the same
\* id and vector at p
StaleSlotKept(index, id_map, rows, index2, id_map2) ==
    \A p \in 1..Min(Len(id_map), ntotal(index)) :
        id_map[p] \notin ItemIds(rows) =>
            /\ p <= Len(id_map2) /\ id_map2[p] = id_map[p]
            /\ p <= ntotal(index2) /\ index2.xb[p] = index.xb[p]

\* C26: (SpecShared, where no rebuild runs) a deletion changes the record
\* store only; a running watcher only appends to its spaces; and a slot on
\* disk whose item was deleted keeps its position, id and vector in every
\* step that leaves the index directory readable.
C26_DeleteLeavesSlot ==
    [][ /\ (db' # db /\ db' \subseteq db) => (disk' = disk /\ cw' = cw /\ sw' = sw)
        /\ (cw.alive /\ cw'.alive) => KeepsSlots(cw.store, cw'.store)
        /\ (sw.alive /\ sw'.alive) => KeepsSlots(sw.store, sw'.store)
        /\ (Loadable /\ Loadable') =>
              /\ StaleSlotKept(OnDisk.text_index, OnDisk.text_id_map, db,
                               OnDisk'.text_index, OnDisk'.text_id_map)
              /\ StaleSlotKept(OnDisk.image_index, OnDisk.image_id_map, db,
                               OnDisk'.image_index, OnDisk'.image_id_map) ]_vars

\* C28: (screenshot pipeline SpecScreens) when the watcher has inserted the
\* item of a screenshot and goes on, the path is in its processed set and in
\* the cache file, so that the next scan of the folder passes the file over.
C28_IngestedIsMarked ==
    [][ \A r \in db' \ db :
          (r.source = "screenshot" /\ sw'.alive)
              => /\ r.blob_uri[1] \in sw'.processed
                 /\ r.blob_uri[1] \in cache' ]_vars

\* ---------------------------------------------------------------------------
\* SpecOcr: the screenshot watcher and the rebuild script over screenshots
\* without text
\* ---------------------------------------------------------------------------

NextOcr ==
    \/ (res = NoRes /\ SwStart)
    \/ (res = NoRes /\ SwStop)
    \/ (res = NoRes /\ \E f \in OcrFiles : NewScreenshot(f))
    \/ (res = NoRes /\ \E f \in OcrFiles : SwProcess(f))
    \/ \E text_encoder_up \in BOOLEAN, failing \in SUBSET (1..MaxItemId) :
           RebuildRun(text_encoder_up, failing)
    \/ RebuildExit

SpecOcr == Init /\ [][NextOcr]_vars

\* the ids with a slot in the text space of store s
TextIdsIn(s) == {s.text_id_map[p] : p \in 1..Len(s.text_id_map)}

\* C30: (SpecOcr) a screenshot whose extracted text is one of the no-text
\* values has no vector in the text space: not in the store of the running
\* watcher, not in the store a rebuild has built, not on disk.
C30_NoTextNoTextVector ==
    \A r \in db :
        (r.source = "screenshot" /\ r.text \in {NoTextDetected, OcrUnavailable}) =>
            /\ sw.alive => r.id \notin TextIdsIn(sw.store)
            /\ (res.op = "rebuild" /\ store.open) => r.id \notin TextIdsIn(store)
            /\ Loadable => r.id \notin TextIdsIn(OnDisk)

====
